---------------------------- MODULE Spec2Model ----------------------------
(***************************************************************************)
(* Clara Voice Lab (ClaraverseVoiceLAB): the model lifecycle manager of    *)
(* src/backend/main.py (module-level tts_model / vc_model / current_device *)
(* / model_load_time, load_models, unload_models, the ensure_* helpers,    *)
(* the idle-unload timer threads and the request handlers that use them),  *)
(* the chunk splitter split_audio_into_chunks, apply_audio_effects, the    *)
(* chunk loops (process_audio_chunks of main.py and app.py and the loop of *)
(* process_video_chunks_with_preview) and the duration reconciliation of   *)
(* video_voice_conversion.  Each has its own specification: Spec,          *)
(* SplitSpec, EffectsSpec, ChunkSpec, ReconcileSpec.                       *)
(*                                                                         *)
(* The request handlers are plain `def` FastAPI endpoints: the framework   *)
(* runs each in a worker thread, so handlers interleave with each other    *)
(* and with the daemon threads started by auto_unload_models_after_delay.  *)
(* The source takes no lock anywhere.  Every process therefore has a       *)
(* position (pc) and one action per statement that reads or writes the     *)
(* module-level state.                                                     *)
(*                                                                         *)
(* unload_models runs its three assignments (113-121) without a call       *)
(* between them and is one step; load_models waits for from_pretrained     *)
(* twice and is four steps.                                                *)
(*                                                                         *)
(* The clock `now` counts periods of the idle delay the handlers ask for   *)
(* (delay_minutes = 5, i.e. 300 s): time.time() is Seconds(now).           *)
(* The machine is one where torch.cuda.is_available() is true, so that     *)
(* get_available_devices() = ["cpu", "cuda"], get_default_device() =       *)
(* "cuda", and CHATTERBOX_AVAILABLE is true.                               *)
(***************************************************************************)
EXTENDS Integers, Sequences, FiniteSets, TLC

(***************************************************************************)
(* Bounds of the model.                                                    *)
(***************************************************************************)
NumRequests == 2
MaxTimers == 2
MaxTime == 2
MaxLen == 4
MaxChunkSeconds == 2
MaxSampleRate == 2
MaxEffLen == 2
MaxDuration == 3

(***************************************************************************)
(* Program constants.                                                      *)
(***************************************************************************)
DelayMinutes == 5
NoTime == -1
\* a duration that is None (main.py 1246, 1273)
NoDuration == -1

NoModel == "None"
Devices == {"cpu", "cuda"}
DefaultDevice == "cuda"

Reqs == 1..NumRequests
Timers == (NumRequests + 1)..(NumRequests + MaxTimers)
Procs == Reqs \cup Timers

\* One unit of the clock, in seconds, and time.time() at clock value t.
SecondsPerTick == DelayMinutes * 60
Seconds(t) == t * SecondsPerTick

VARIABLES
    tts_model,        \* global tts_model: NoModel or the device it was loaded on
    vc_model,         \* global vc_model: NoModel or the device it was loaded on
    current_device,   \* global current_device
    model_load_time,  \* global model_load_time: NoTime (None) or a clock value
    now,              \* the clock
    pc,               \* position of every request thread and timer thread;
                      \* a request thread at rest shows how its last request ended
    kind,             \* which handler a request thread runs or ran last
    device,           \* load_models' parameter `device` of the call in progress
    held,             \* the handler's local `tts_model` (TTS handlers)
    armed,            \* for a sleeping timer thread, the time it was started
    entry_unloaded,   \* history: the manager was Unloaded when the request's
                      \* load_models / unload_models call began
    used_since,       \* history: for a sleeping timer thread, whether a request
                      \* has ensured or used a model since the thread was started
    audio,            \* split_audio_into_chunks: the signal librosa.load returned
    chunk_duration_seconds, \* split_audio_into_chunks: parameter
    sample_rate,      \* split_audio_into_chunks: parameter
    chunks,           \* split_audio_into_chunks: the list being built / returned
    split_i,          \* split_audio_into_chunks: loop variable i (0-based)
    split_pc,         \* split_audio_into_chunks: position
    audio_array,      \* apply_audio_effects: parameter / local audio_array
    pitch_shift,      \* apply_audio_effects: parameter (semitones)
    speed_factor,     \* apply_audio_effects: parameter
    volume_factor,    \* apply_audio_effects: parameter
    eff_pc,           \* apply_audio_effects: position
    eff_in,           \* history: audio_array as it was passed in
    eff_applied,      \* history: the stages that have completed, in order
    eff_raised,       \* history: the stage that raised, or "none"
    entry,            \* which chunk loop runs: "backend" (main.py
                      \* process_audio_chunks), "app" (app.py
                      \* process_audio_chunks) or "preview" (app.py
                      \* process_video_chunks_with_preview)
    model_sr,         \* vc_model.sr, the sample rate of the model's output
    cp_pc,            \* chunk loop: position
    cp_i,             \* chunk loop: loop variable i (0-based)
    converted_chunks, \* chunk loop: the list converted_chunks
    combined_audio,   \* chunk loop: np.concatenate(converted_chunks)
    outcomes,         \* history: for every element of converted_chunks, the
                      \* index of the chunk it stands for, how it came about,
                      \* the audio before the effects, and whether the
                      \* chunk's temp file went to safe_file_cleanup
    video_duration,   \* video_voice_conversion: video_duration (D)
    converted_audio_clip, \* video_voice_conversion: the clip to attach
    rec_in,           \* history: the converted audio clip as loaded (A)
    rec_pc,           \* reconciliation: position
    locked,           \* safe_file_cleanup: another process holds the file
    sfc_returns,      \* values returned by the caller's earlier cleanups
    file_exists,      \* safe_file_cleanup: os.path.exists(file_path) right now
    attempt,          \* safe_file_cleanup: loop variable attempt (0-based)
    sfc_pc,           \* safe_file_cleanup: position
    sfc_result,       \* safe_file_cleanup: "True", "False", "raised" or "none" yet
    backoffs,         \* history: the sleeps of line 192, in units of delay
    errors,           \* history: what every failed os.unlink raised
    vid_pc,           \* video_voice_conversion: position
    file_extension,   \* video_voice_conversion: file_extension
    duration,         \* video_voice_conversion: duration (the WebM estimate)
    probed,           \* history: the duration ffprobe found in the container
    clip_reported,    \* history: video_clip.duration as VideoFileClip gave it
    video_path,       \* video_voice_conversion: video_path
    audio_path,       \* video_voice_conversion: audio_path
    converted_audio_path, \* video_voice_conversion: converted_audio_path
    final_video_path, \* video_voice_conversion: final_video_path
    tmp_made,         \* history: the temp files the handler has created
    cleanup_attempted, \* history: the temp files handed to safe_file_cleanup
    raised,           \* history: the exceptions raised inside the handler
    response,         \* video_voice_conversion: what the caller receives
    endpoint,         \* conversion endpoints: which handler runs
    enable_chunking,  \* conversion endpoints: enable_chunking
    chunk_duration,   \* conversion endpoints: chunk_duration, in seconds
    input_seconds,    \* conversion endpoints: length of the input audio
    audio_duration,   \* conversion endpoints: audio_duration
    ent_chunks,       \* conversion endpoints: lengths of the chunks to convert
    ent_pc,           \* conversion endpoints: position
    fed,              \* history: the audio handed to each vc_model.generate call
    installer,        \* installers: which script runs
    has_nvidia_gpu,   \* installers: nvidia-smi finds a GPU
    option,           \* installers: index of the option being tried
    inst_pc,          \* installers: position
    inst_result,      \* installers: "True", "False" or "none" yet
    tried             \* history: the options tried and how each went

mgrVars == <<tts_model, vc_model, current_device, model_load_time, now, pc, kind,
             device, held, armed, entry_unloaded, used_since>>
splitVars == <<audio, chunk_duration_seconds, sample_rate, chunks, split_i, split_pc>>
effVars == <<audio_array, pitch_shift, speed_factor, volume_factor, eff_pc, eff_in,
             eff_applied, eff_raised>>
chunkVars == <<entry, model_sr, cp_pc, cp_i, converted_chunks, combined_audio,
               outcomes>>
recVars == <<video_duration, converted_audio_clip, rec_in, rec_pc>>
cleanVars == <<file_exists, locked, attempt, sfc_pc, sfc_result, backoffs, errors,
               sfc_returns>>
vidVars == <<vid_pc, file_extension, duration, probed, clip_reported, video_path,
             audio_path, converted_audio_path, final_video_path, tmp_made,
             cleanup_attempted, raised, response>>
entryVars == <<endpoint, enable_chunking, chunk_duration, input_seconds,
               audio_duration, ent_chunks, ent_pc, fed>>
instVars == <<installer, has_nvidia_gpu, option, inst_pc, inst_result, tried>>
\* the state of the remaining functions
otherVars == <<cleanVars, vidVars, entryVars, instVars>>
\* everything but safe_file_cleanup, but the video handler, but the
\* conversion endpoints, and but the installers
notCleanVars == <<mgrVars, splitVars, effVars, chunkVars, recVars, vidVars,
                  entryVars, instVars>>
notVidVars == <<mgrVars, splitVars, effVars, chunkVars, converted_audio_clip,
                rec_in, rec_pc, cleanVars, entryVars, instVars>>
notEntryVars == <<mgrVars, splitVars, effVars, chunkVars, recVars, cleanVars,
                  vidVars, instVars>>
notInstVars == <<mgrVars, splitVars, effVars, chunkVars, recVars, cleanVars,
                 vidVars, entryVars>>
\* everything but the manager, and everything but the splitter
mediaVars == <<splitVars, effVars, chunkVars, recVars, otherVars>>
notSplitVars == <<mgrVars, effVars, chunkVars, recVars, otherVars>>
vars == <<mgrVars, splitVars, effVars, chunkVars, recVars, otherVars>>

globals == <<tts_model, vc_model, current_device, model_load_time>>

(***************************************************************************)
(* The manager state as one value, and its Unloaded state.                 *)
(***************************************************************************)
Mgr == [tts |-> tts_model, vc |-> vc_model, dev |-> current_device,
        time |-> model_load_time]

IsUnloaded(m) == m.tts = NoModel /\ m.vc = NoModel /\ m.time = NoTime

\* Python truthiness of model_load_time: None and 0 are false.
Truthy(t) == t # NoTime /\ t # 0

\* A request thread at rest: no request yet, or the way the last one ended
\* (a response, the load error of 144 / 1094 / 707, the 500 of the handler's
\* except clause).
Resting == {"idle", "ok", "load_error", "error"}

MgrInit ==
    /\ tts_model = NoModel
    /\ vc_model = NoModel
    /\ current_device = "cpu"
    /\ model_load_time = NoTime
    /\ now = 1
    /\ pc = [p \in Procs |-> "idle"]
    /\ kind = [p \in Procs |-> IF p \in Timers THEN "timer" ELSE "none"]
    /\ device = [p \in Procs |-> DefaultDevice]
    /\ held = [p \in Procs |-> NoModel]
    /\ armed = [p \in Procs |-> 0]
    /\ entry_unloaded = [p \in Procs |-> FALSE]
    /\ used_since = [p \in Procs |-> FALSE]

SplitIdle ==
    /\ audio = <<>>
    /\ chunk_duration_seconds = 0
    /\ sample_rate = 1
    /\ chunks = <<>>
    /\ split_i = 0
    /\ split_pc = "off"

EffIdle ==
    /\ audio_array = <<>>
    /\ pitch_shift = 0
    /\ speed_factor = 1
    /\ volume_factor = 1
    /\ eff_pc = "off"
    /\ eff_in = <<>>
    /\ eff_applied = <<>>
    /\ eff_raised = "none"

ChunkIdle ==
    /\ entry = "backend"
    /\ model_sr = 1
    /\ cp_pc = "off"
    /\ cp_i = 0
    /\ converted_chunks = <<>>
    /\ combined_audio = <<>>
    /\ outcomes = <<>>

RecIdle ==
    /\ video_duration = 0
    /\ converted_audio_clip = <<>>
    /\ rec_in = <<>>
    /\ rec_pc = "off"

CleanIdle ==
    /\ locked = FALSE
    /\ sfc_returns = <<>>
    /\ file_exists = FALSE
    /\ attempt = 0
    /\ sfc_pc = "off"
    /\ sfc_result = "none"
    /\ backoffs = <<>>
    /\ errors = <<>>

VidIdle ==
    /\ vid_pc = "off"
    /\ file_extension = ".mp4"
    /\ duration = NoDuration
    /\ probed = NoDuration
    /\ clip_reported = NoDuration
    /\ video_path = "None"
    /\ audio_path = "None"
    /\ converted_audio_path = "None"
    /\ final_video_path = "None"
    /\ tmp_made = {}
    /\ cleanup_attempted = {}
    /\ raised = <<>>
    /\ response = "none"

EntryIdle ==
    /\ endpoint = "none"
    /\ enable_chunking = FALSE
    /\ chunk_duration = 0
    /\ input_seconds = 0
    /\ audio_duration = 0
    /\ ent_chunks = <<>>
    /\ ent_pc = "off"
    /\ fed = <<>>

InstIdle ==
    /\ installer = "none"
    /\ has_nvidia_gpu = FALSE
    /\ option = 0
    /\ inst_pc = "off"
    /\ inst_result = "none"
    /\ tried = <<>>

OtherIdle == CleanIdle /\ VidIdle /\ EntryIdle /\ InstIdle

Init == MgrInit /\ SplitIdle /\ EffIdle /\ ChunkIdle /\ RecIdle /\ OtherIdle

(***************************************************************************)
(* A request ends: its response (or HTTPException) leaves the handler and  *)
(* the locals of the call are gone.                                        *)
(***************************************************************************)
Finish(r, res) ==
    /\ pc' = [pc EXCEPT ![r] = res]
    /\ held' = [held EXCEPT ![r] = NoModel]
    /\ device' = [device EXCEPT ![r] = DefaultDevice]

Goto(p, to) ==
    /\ pc' = [pc EXCEPT ![p] = to]
    /\ UNCHANGED <<held, device>>

Begin(r, k, to) ==
    /\ pc[r] \in Resting
    /\ pc' = [pc EXCEPT ![r] = to]
    /\ kind' = [kind EXCEPT ![r] = k]
    /\ entry_unloaded' = [entry_unloaded EXCEPT ![r] = FALSE]

\* history: a request ensures or uses a model while these timers sleep
Use == used_since' = [t \in Procs |-> pc[t] = "sleep"]

(***************************************************************************)
(* load_models(device), main.py 81-107.                                    *)
(***************************************************************************)
\* line 96: reload only if the device changed or a model is missing
NeedsLoad(m, d) == m.dev # d \/ m.tts = NoModel \/ m.vc = NoModel

\* What the caller of load_models does with its return value:
\* ensure_tts_model_loaded 142-146, voice_conversion 1091-1094,
\* set_device 705-712.
AfterLoad(p, ok) ==
    IF ok
    THEN CASE kind[p] = "tts" -> Goto(p, "ensure_ret")
           [] kind[p] = "vc" -> Goto(p, "generate")
           [] OTHER -> Finish(p, "ok")
    ELSE Finish(p, "load_error")

load_check(p) ==
    /\ pc[p] = "load_check"
    /\ entry_unloaded' = [entry_unloaded EXCEPT ![p] = IsUnloaded(Mgr)]
    /\ IF NeedsLoad(Mgr, device[p])
       THEN Goto(p, "load_tts")
       ELSE AfterLoad(p, TRUE)
    /\ UNCHANGED <<globals, now, kind, armed, used_since,
                   mediaVars>>

\* line 98: ChatterboxTTS.from_pretrained returns, or raises (105-107)
load_tts(p) ==
    /\ pc[p] = "load_tts"
    /\ \/ /\ tts_model' = device[p]
          /\ Goto(p, "load_vc")
       \/ /\ UNCHANGED tts_model
          /\ AfterLoad(p, FALSE)
    /\ UNCHANGED <<vc_model, current_device, model_load_time, now, kind, armed,
                   entry_unloaded, used_since,
                   mediaVars>>

\* line 99: ChatterboxVC.from_pretrained returns, or raises (105-107)
load_vc(p) ==
    /\ pc[p] = "load_vc"
    /\ \/ /\ vc_model' = device[p]
          /\ Goto(p, "load_set")
       \/ /\ UNCHANGED vc_model
          /\ AfterLoad(p, FALSE)
    /\ UNCHANGED <<tts_model, current_device, model_load_time, now, kind, armed,
                   entry_unloaded, used_since,
                   mediaVars>>

\* lines 100-104
load_set(p) ==
    /\ pc[p] = "load_set"
    /\ current_device' = device[p]
    /\ model_load_time' = now
    /\ AfterLoad(p, TRUE)
    /\ UNCHANGED <<tts_model, vc_model, now, kind, armed, entry_unloaded, used_since,
                   mediaVars>>

(***************************************************************************)
(* unload_models(), main.py 109-135.                                       *)
(***************************************************************************)
\* lines 113-115 and 117-119
UnloadModel(m) == IF m # NoModel THEN NoModel ELSE m

\* a slip in line 121: model_load_time = time.time()
UnloadTimeStamp(t) == now

\* line 121
UnloadTime(t) == NoTime

\* unload_models on a manager state
UnloadModels(m) ==
    [tts |-> UnloadModel(m.tts), vc |-> UnloadModel(m.vc), dev |-> m.dev,
     time |-> UnloadTime(m.time)]

DoUnload ==
    /\ tts_model' = UnloadModels(Mgr).tts
    /\ vc_model' = UnloadModels(Mgr).vc
    /\ current_device' = UnloadModels(Mgr).dev
    /\ model_load_time' = UnloadModels(Mgr).time

(***************************************************************************)
(* auto_unload_models_after_delay(5), main.py 159-172: every call starts   *)
(* one more daemon thread that sleeps, checks and unloads.                 *)
(***************************************************************************)
FreeTimers == {t \in Timers : pc[t] = "idle"}

\* line 172: threading.Thread(target=unload_after_delay).start(), as the
\* last step of request r, which ends with a response
auto_unload_models_after_delay(r) ==
    LET t == CHOOSE x \in FreeTimers : \A y \in FreeTimers : x <= y
    IN  /\ pc' = [pc EXCEPT ![r] = "ok", ![t] = "sleep"]
        /\ armed' = [armed EXCEPT ![t] = now]
        /\ used_since' = [x \in Procs |-> pc[x] = "sleep"]

\* line 164: time.sleep(delay_minutes * 60) returns no earlier than asked
SleepOver(t, since) == Seconds(t) - Seconds(since) >= DelayMinutes * 60

\* line 167: the models count as idle when the load is delay_minutes old
StillIdle(t, loaded) ==
    Truthy(loaded) /\ Seconds(t) - Seconds(loaded) >= DelayMinutes * 60

\* lines 163-168: the thread wakes, checks, calls unload_models() or not,
\* and ends
unload_after_delay(t) ==
    /\ pc[t] = "sleep"
    /\ SleepOver(now, armed[t])
    /\ IF StillIdle(now, model_load_time)
       THEN DoUnload
       ELSE UNCHANGED globals
    /\ pc' = [pc EXCEPT ![t] = "idle"]
    /\ armed' = [armed EXCEPT ![t] = 0]
    /\ used_since' = [used_since EXCEPT ![t] = FALSE]
    /\ UNCHANGED <<now, kind, device, held, entry_unloaded,
                   mediaVars>>

(***************************************************************************)
(* The request handlers.                                                   *)
(***************************************************************************)
\* POST /api/tts/default (714), /api/tts/voice (776), /api/tts/clone (855):
\* the three handlers use the manager in the same way.
text_to_speech_default(r) ==
    /\ Begin(r, "tts", "ensure_tts")
    /\ UNCHANGED <<globals, now, device, held, armed, used_since,
                   mediaVars>>

\* ensure_tts_model_loaded 141-146: with a model present the global is
\* returned into the handler's local tts_model (723); without one
\* load_models(None) loads on get_default_device()
ensure_tts_model_loaded(r) ==
    /\ pc[r] = "ensure_tts"
    /\ Use
    /\ IF tts_model = NoModel
       THEN /\ pc' = [pc EXCEPT ![r] = "load_check"]
            /\ device' = [device EXCEPT ![r] = DefaultDevice]
            /\ UNCHANGED held
       ELSE /\ pc' = [pc EXCEPT ![r] = "generate"]
            /\ held' = [held EXCEPT ![r] = tts_model]
            /\ UNCHANGED device
    /\ UNCHANGED <<globals, now, kind, armed, entry_unloaded,
                   mediaVars>>

\* ensure_tts_model_loaded 146 after a load: the handler's local tts_model
\* is the global as it is at the return
ensure_ret(r) ==
    /\ pc[r] = "ensure_ret"
    /\ pc' = [pc EXCEPT ![r] = "generate"]
    /\ held' = [held EXCEPT ![r] = tts_model]
    /\ UNCHANGED <<globals, now, kind, device, armed, entry_unloaded, used_since,
                   mediaVars>>

\* POST /api/voice-conversion (1076), /api/voice-conversion/with-voice (953),
\* /api/video-conversion (1166)
voice_conversion(r) ==
    /\ Begin(r, "vc", "vc_check")
    /\ UNCHANGED <<globals, now, device, held, armed, used_since,
                   mediaVars>>

\* lines 1091-1094: if vc_model is None: load_models()
vc_check(r) ==
    /\ pc[r] = "vc_check"
    /\ Use
    /\ IF vc_model = NoModel
       THEN /\ pc' = [pc EXCEPT ![r] = "load_check"]
            /\ device' = [device EXCEPT ![r] = DefaultDevice]
            /\ UNCHANGED held
       ELSE Goto(r, "generate")
    /\ UNCHANGED <<globals, now, kind, armed, entry_unloaded,
                   mediaVars>>

\* The model object a handler's statements reach: the TTS handlers use their
\* local tts_model, the conversion handlers read the global vc_model at
\* every use (global vc_model, lines 966, 1089, 1179).
UsedModel(r) == IF kind[r] = "tts" THEN held[r] ELSE vc_model

\* tts_model.generate (729) / vc_model.generate (1112): on None an
\* AttributeError, and the model itself may raise; both end in the handler's
\* except clause (772, 1158) as a 500.
generate(r) ==
    /\ pc[r] = "generate"
    /\ Use
    /\ IF UsedModel(r) = NoModel
       THEN Finish(r, "error")
       ELSE \/ Goto(r, "save")
            \/ Finish(r, "error")
    /\ UNCHANGED <<globals, now, kind, armed, entry_unloaded,
                   mediaVars>>

\* Whether the handler ends with auto_unload_models_after_delay(5): the TTS
\* handlers do (764, 842, 907); the conversion handlers return without
\* (1138, 1060, 1379).
ArmsTimer(k) == k = "tts"

\* ta.save(tmp_file.name, wav, model.sr) (741, 1127), the history record and
\* the response
save(r) ==
    /\ pc[r] = "save"
    /\ IF UsedModel(r) = NoModel
       THEN /\ Finish(r, "error")
            /\ Use
            /\ UNCHANGED armed
       ELSE /\ held' = [held EXCEPT ![r] = NoModel]
            /\ UNCHANGED device
            /\ IF ArmsTimer(kind[r])
               THEN /\ FreeTimers # {}
                    /\ auto_unload_models_after_delay(r)
               ELSE /\ pc' = [pc EXCEPT ![r] = "ok"]
                    /\ Use
                    /\ UNCHANGED armed
    /\ UNCHANGED <<globals, now, kind, entry_unloaded,
                   mediaVars>>

\* POST /api/set-device (694-712) with an available device
set_device(r, d) ==
    /\ Begin(r, "set_device", "load_check")
    /\ device' = [device EXCEPT ![r] = d]
    /\ UNCHANGED <<globals, now, held, armed, used_since,
                   mediaVars>>

\* POST /api/unload-models (925-932): the request arrives
manual_unload_models(r) ==
    /\ Begin(r, "unload", "unload")
    /\ UNCHANGED <<globals, now, device, held, armed, used_since,
                   mediaVars>>

\* line 929: unload_models(), and the response of line 930
unload_models(r) ==
    /\ pc[r] = "unload"
    /\ entry_unloaded' = [entry_unloaded EXCEPT ![r] = IsUnloaded(Mgr)]
    /\ DoUnload
    /\ Finish(r, "ok")
    /\ UNCHANGED <<now, kind, armed, used_since,
                   mediaVars>>

\* time passes
Tick ==
    /\ now < MaxTime
    /\ now' = now + 1
    /\ UNCHANGED <<globals, pc, kind, device, held, armed, entry_unloaded,
                   used_since,
                   mediaVars>>

MgrNext ==
    \/ \E r \in Reqs : text_to_speech_default(r)
    \/ \E r \in Reqs : ensure_tts_model_loaded(r)
    \/ \E r \in Reqs : ensure_ret(r)
    \/ \E r \in Reqs : voice_conversion(r)
    \/ \E r \in Reqs : vc_check(r)
    \/ \E r \in Reqs : generate(r)
    \/ \E r \in Reqs : save(r)
    \/ \E r \in Reqs, d \in Devices : set_device(r, d)
    \/ \E r \in Reqs : manual_unload_models(r)
    \/ \E r \in Reqs : unload_models(r)
    \/ \E r \in Reqs : load_check(r)
    \/ \E r \in Reqs : load_tts(r)
    \/ \E r \in Reqs : load_vc(r)
    \/ \E r \in Reqs : load_set(r)
    \/ \E t \in Timers : unload_after_delay(t)
    \/ Tick

Next == MgrNext

Spec == Init /\ [][Next]_vars


(***************************************************************************)
(* split_audio_into_chunks(audio_path, chunk_duration_seconds,             *)
(* sample_rate), main.py 339-357 (app.py 156-174 is the same code).        *)
(* Samples are small integers; a signal is a sequence of samples.          *)
(***************************************************************************)
Samples == {0, 1}
Signals == UNION {[1..n -> Samples] : n \in 0..MaxLen}

Min(a, b) == IF a <= b THEN a ELSE b

\* a slip in line 351: audio[i:i + chunk_size - 1]
PySliceShort(s, lo, hi) == SubSeq(s, lo + 1, Min(hi - 1, Len(s)))

\* line 351: the Python slice s[lo:hi] for 0 <= lo <= hi, clamped to len(s)
PySlice(s, lo, hi) == SubSeq(s, lo + 1, Min(hi, Len(s)))

\* a slip in line 346: chunk_duration_seconds + sample_rate
ChunkSizeSum(seconds, rate) == seconds + rate

\* line 346
ChunkSize(seconds, rate) == seconds * rate

\* np.concatenate of a list of chunks, in list order
RECURSIVE Concatenate(_)
Concatenate(cs) == IF cs = <<>> THEN <<>> ELSE Head(cs) \o Concatenate(Tail(cs))

SplitInit ==
    /\ audio = <<>>
    /\ chunk_duration_seconds \in 0..MaxChunkSeconds
    /\ sample_rate \in 1..MaxSampleRate
    /\ chunks = <<>>
    /\ split_i = 0
    /\ split_pc = "load"

\* line 343: librosa.load decodes and resamples to sample_rate, or raises
\* (355-357: return [], sample_rate)
split_load ==
    /\ split_pc = "load"
    /\ \/ \E a \in Signals : audio' = a /\ split_pc' = "range"
       \/ audio' = audio /\ split_pc' = "failed"
    /\ UNCHANGED <<chunk_duration_seconds, sample_rate, chunks, split_i, notSplitVars>>

\* lines 346-350: range(0, len(audio), chunk_size) raises ValueError on a
\* zero step (355-357)
split_range ==
    /\ split_pc = "range"
    /\ split_pc' = IF ChunkSize(chunk_duration_seconds, sample_rate) = 0
                   THEN "failed" ELSE "loop"
    /\ UNCHANGED <<audio, chunk_duration_seconds, sample_rate, chunks, split_i,
                   notSplitVars>>

\* lines 350-352: one iteration of the loop
split_chunk ==
    /\ split_pc = "loop"
    /\ split_i < Len(audio)
    /\ chunks' = Append(chunks, PySlice(audio, split_i,
                            split_i + ChunkSize(chunk_duration_seconds, sample_rate)))
    /\ split_i' = split_i + ChunkSize(chunk_duration_seconds, sample_rate)
    /\ UNCHANGED <<audio, chunk_duration_seconds, sample_rate, split_pc, notSplitVars>>

\* line 354: the loop is over, return chunks, sr
split_return ==
    /\ split_pc = "loop"
    /\ split_i >= Len(audio)
    /\ split_pc' = "done"
    /\ UNCHANGED <<audio, chunk_duration_seconds, sample_rate, chunks, split_i,
                   notSplitVars>>

SplitNext ==
    \/ split_load
    \/ split_range
    \/ split_chunk
    \/ split_return

SplitSpecInit == MgrInit /\ SplitInit /\ EffIdle /\ ChunkIdle /\ RecIdle /\ OtherIdle

SplitSpec == SplitSpecInit /\ [][SplitNext]_vars

(***************************************************************************)
(* apply_audio_effects(audio_array, sample_rate, pitch_shift,              *)
(* speed_factor, volume_factor), main.py 359-379.                          *)
(*                                                                         *)
(* Amplitudes are whole numbers, FullScale standing for 1.0.  The two      *)
(* librosa calls are external: pitch_shift keeps the number of samples and *)
(* changes their values, time_stretch by an integer rate keeps one sample  *)
(* in `rate`; either may raise.  The volume stage is array arithmetic.     *)
(***************************************************************************)
FullScale == 1
Amplitudes == (0 - 2 * FullScale)..(2 * FullScale)
EffSignals == UNION {[1..n -> Amplitudes] : n \in 0..MaxEffLen}
PitchShifts == {0, 1}
SpeedFactors == {1, 2}
VolumeFactors == {1, 2}

Max(a, b) == IF a >= b THEN a ELSE b

\* line 364: librosa.effects.pitch_shift
PitchShift(s, n_steps) == [k \in 1..Len(s) |-> 0 - s[k]]

\* line 368: librosa.effects.time_stretch
TimeStretch(s, rate) == [k \in 1..(Len(s) \div rate) |-> s[(k - 1) * rate + 1]]

\* line 372: audio_array * volume_factor
Scale(s, factor) == [k \in 1..Len(s) |-> s[k] * factor]

\* a slip in line 374: only the upper bound is enforced
ClipHigh(s) == [k \in 1..Len(s) |-> Min(s[k], FullScale)]

\* line 374: np.clip(audio_array, -1.0, 1.0)
Clip(s) == [k \in 1..Len(s) |-> Max(0 - FullScale, Min(s[k], FullScale))]

\* lines 363, 367, 371: the guards of the three stages
PitchActive(p) == p # 0
SpeedActive(f) == f # 1

\* a slip in line 371: the volume stage runs whatever the factor
VolumeActiveAlways(f) == TRUE

VolumeActive(f) == f # 1

\* a slip in lines 377-379: the except clause returns the caller's signal
ExceptReturnsInput(current, original) == original

\* lines 377-379: `return audio_array` in the except clause returns the
\* local as the last completed assignment left it
ExceptReturns(current, original) == current

\* the call: the parameters are bound
EffCall(a, p, f, v) ==
    /\ audio_array' = a
    /\ eff_in' = a
    /\ pitch_shift' = p
    /\ speed_factor' = f
    /\ volume_factor' = v
    /\ eff_pc' = "pitch"
    /\ eff_applied' = <<>>
    /\ eff_raised' = "none"

EffInit ==
    /\ audio_array \in EffSignals
    /\ eff_in = audio_array
    /\ pitch_shift \in PitchShifts
    /\ speed_factor \in SpeedFactors
    /\ volume_factor \in VolumeFactors
    /\ eff_pc = "pitch"
    /\ eff_applied = <<>>
    /\ eff_raised = "none"

\* a stage raises: lines 377-379
EffRaise(stage) ==
    /\ audio_array' = ExceptReturns(audio_array, eff_in)
    /\ eff_raised' = stage
    /\ eff_pc' = "done"
    /\ UNCHANGED eff_applied

\* lines 363-364
eff_pitch ==
    /\ eff_pc = "pitch"
    /\ IF PitchActive(pitch_shift)
       THEN \/ /\ audio_array' = PitchShift(audio_array, pitch_shift)
               /\ eff_applied' = Append(eff_applied, "pitch")
               /\ eff_pc' = "speed"
               /\ UNCHANGED eff_raised
            \/ EffRaise("pitch")
       ELSE /\ eff_pc' = "speed"
            /\ UNCHANGED <<audio_array, eff_applied, eff_raised>>
    /\ UNCHANGED <<pitch_shift, speed_factor, volume_factor, eff_in,
                   mgrVars, otherVars, splitVars, chunkVars, recVars>>

\* lines 367-368
eff_speed ==
    /\ eff_pc = "speed"
    /\ IF SpeedActive(speed_factor)
       THEN \/ /\ audio_array' = TimeStretch(audio_array, speed_factor)
               /\ eff_applied' = Append(eff_applied, "speed")
               /\ eff_pc' = "volume"
               /\ UNCHANGED eff_raised
            \/ EffRaise("speed")
       ELSE /\ eff_pc' = "volume"
            /\ UNCHANGED <<audio_array, eff_applied, eff_raised>>
    /\ UNCHANGED <<pitch_shift, speed_factor, volume_factor, eff_in,
                   mgrVars, otherVars, splitVars, chunkVars, recVars>>

\* lines 371-376
eff_volume ==
    /\ eff_pc = "volume"
    /\ IF VolumeActive(volume_factor)
       THEN /\ audio_array' = Clip(Scale(audio_array, volume_factor))
            /\ eff_applied' = Append(eff_applied, "volume")
       ELSE UNCHANGED <<audio_array, eff_applied>>
    /\ eff_pc' = "done"
    /\ UNCHANGED <<pitch_shift, speed_factor, volume_factor, eff_in, eff_raised,
                   mgrVars, otherVars, splitVars, chunkVars, recVars>>

EffNext ==
    \/ eff_pitch
    \/ eff_speed
    \/ eff_volume

EffectsSpecInit == MgrInit /\ SplitIdle /\ EffInit /\ ChunkIdle /\ RecIdle /\ OtherIdle

EffectsSpec == EffectsSpecInit /\ [][EffNext]_vars

(***************************************************************************)
(* The chunk loops: process_audio_chunks of main.py 381-422 ("backend"),   *)
(* process_audio_chunks of app.py 176-225 ("app") and the loop of          *)
(* process_video_chunks_with_preview of app.py 288-330 ("preview").        *)
(* The three differ in what follows a successful vc_model.generate: the    *)
(* backend applies the effects to the converted chunk, the preview loop    *)
(* renders a preview after the first and after every third chunk.          *)
(*                                                                         *)
(* vc_model.generate is external: it raises, or returns the chunk's        *)
(* duration of converted audio at the model's own rate vc_model.sr (the    *)
(* rate every caller saves the result with, main.py 1037, 1127, 1341).     *)
(* safe_file_cleanup answers True or False and the loops ignore which.     *)
(***************************************************************************)
Entries == {"backend", "app", "preview"}
Voices == {1, 2}

\* lines 395-401 / app.py 195-201, 299-305: what a successful vc_model.generate returns
GenOut(chunk, v) == [k \in 1..((Len(chunk) * model_sr) \div sample_rate) |-> v]

\* line 413 / app.py 213, 324: np.zeros_like(chunk)
Silence(chunk) == [k \in 1..Len(chunk) |-> 0]

\* a slip in lines 410-415: the failed chunk is skipped
SubstituteNothing(list, chunk) == list

\* lines 413-414 / app.py 213-214, 324-325
Substitute(list, chunk) == Append(list, Silence(chunk))

\* app.py 312: a preview is rendered after this chunk
PreviewDue(i) == i = 0 \/ (i + 1) % 3 = 0

\* the caller (main.py 999-1013, 1303-1317; app.py 849-858, 1062) has the
\* chunks of a split and, if there are any, hands them to the loop
process_audio_chunks ==
    /\ split_pc = "done"
    /\ chunks # <<>>
    /\ cp_pc = "off"
    /\ \E en \in Entries, sr \in 1..MaxSampleRate :
          /\ entry' = en
          /\ model_sr' = sr
          /\ \E p \in PitchShifts, f \in SpeedFactors, v \in VolumeFactors :
                /\ en # "backend" => (p = 0 /\ f = 1 /\ v = 1)
                /\ pitch_shift' = p
                /\ speed_factor' = f
                /\ volume_factor' = v
    /\ cp_pc' = "loop"
    /\ cp_i' = 0
    /\ converted_chunks' = <<>>
    /\ outcomes' = <<>>
    /\ UNCHANGED <<combined_audio, audio_array, eff_pc, eff_in, eff_applied,
                   eff_raised, mgrVars, otherVars, splitVars, recVars>>

\* the except clause hands the chunk's temp file to safe_file_cleanup:
\* app.py 210-211 and 321-322 do, main.py 410-415 has no such call
ExceptCleansUp == entry # "backend"

\* the except clause of the loop body (410-415 / app.py 207-215, 318-326):
\* silence stands in for chunk i and the loop goes on
ChunkExcept ==
    /\ converted_chunks' = Substitute(converted_chunks, chunks[cp_i + 1])
    /\ outcomes' = Append(outcomes, [index |-> cp_i, ok |-> FALSE,
                                     raw |-> Silence(chunks[cp_i + 1]),
                                     released |-> ExceptCleansUp])
    /\ cp_i' = cp_i + 1
    /\ cp_pc' = "loop"

\* the converted chunk is appended and its temp file cleaned up
\* (405-408 / app.py 202-205, 306-309); generated is what vc_model.generate
\* returned for it
ChunkAppend(converted_audio, generated) ==
    /\ converted_chunks' = Append(converted_chunks, converted_audio)
    /\ outcomes' = Append(outcomes, [index |-> cp_i, ok |-> TRUE,
                                     raw |-> generated,
                                     released |-> TRUE])

\* lines 386-401 / app.py 183-201, 288-305: one chunk is saved to a temp
\* file and handed to vc_model.generate; ta.save or generate may raise
cp_convert ==
    /\ cp_pc = "loop"
    /\ cp_i < Len(chunks)
    /\ \/ /\ ChunkExcept
          /\ UNCHANGED effVars
       \/ \E v \in Voices :
             LET converted_audio == GenOut(chunks[cp_i + 1], v)
             IN  CASE entry = "backend" ->
                        /\ EffCall(converted_audio, pitch_shift, speed_factor,
                                   volume_factor)
                        /\ cp_pc' = "effects"
                        /\ UNCHANGED <<cp_i, converted_chunks, outcomes>>
                   [] entry = "app" ->
                        /\ ChunkAppend(converted_audio, converted_audio)
                        /\ cp_i' = cp_i + 1
                        /\ cp_pc' = "loop"
                        /\ UNCHANGED effVars
                   [] entry = "preview" ->
                        /\ ChunkAppend(converted_audio, converted_audio)
                        /\ IF PreviewDue(cp_i)
                           THEN cp_pc' = "preview" /\ cp_i' = cp_i
                           ELSE cp_pc' = "loop" /\ cp_i' = cp_i + 1
                        /\ UNCHANGED effVars
    /\ UNCHANGED <<entry, model_sr, combined_audio, mgrVars, otherVars, splitVars, recVars>>

\* lines 402-408: apply_audio_effects has returned; append and clean up
cp_append ==
    /\ cp_pc = "effects"
    /\ eff_pc = "done"
    /\ ChunkAppend(audio_array, eff_in)
    /\ cp_i' = cp_i + 1
    /\ cp_pc' = "loop"
    /\ eff_pc' = "off"
    /\ UNCHANGED <<entry, model_sr, combined_audio, audio_array, pitch_shift,
                   speed_factor, volume_factor, eff_in, eff_applied, eff_raised,
                   mgrVars, otherVars, splitVars, recVars>>

\* app.py 312-317: the preview of the chunks converted so far is rendered
\* inside the try block of the loop body; np.concatenate, st.write or
\* st.audio may raise
cp_preview ==
    /\ cp_pc = "preview"
    /\ \/ /\ cp_pc' = "loop"
          /\ cp_i' = cp_i + 1
          /\ UNCHANGED <<converted_chunks, outcomes>>
       \/ ChunkExcept
    /\ UNCHANGED <<entry, model_sr, combined_audio, effVars, mgrVars, otherVars, splitVars,
                   recVars>>

\* lines 418-422 / app.py 218-225, 329-330: combine, or return None
cp_combine ==
    /\ cp_pc = "loop"
    /\ cp_i >= Len(chunks)
    /\ IF converted_chunks # <<>>
       THEN /\ combined_audio' = Concatenate(converted_chunks)
            /\ cp_pc' = "done"
       ELSE /\ combined_audio' = <<>>
            /\ cp_pc' = "none"
    /\ UNCHANGED <<entry, model_sr, cp_i, converted_chunks, outcomes, effVars,
                   mgrVars, otherVars, splitVars, recVars>>

ChunkNext ==
    \/ SplitNext
    \/ process_audio_chunks
    \/ cp_convert
    \/ EffNext
    \/ cp_append
    \/ cp_preview
    \/ cp_combine

ChunkSpecInit == MgrInit /\ SplitInit /\ EffIdle /\ ChunkIdle /\ RecIdle /\ OtherIdle

ChunkSpec == ChunkSpecInit /\ [][ChunkNext]_vars

(***************************************************************************)
(* Duration reconciliation of video_voice_conversion, main.py 1346-1359    *)
(* (app.py 338-350 is the same code): the converted audio is cut or padded *)
(* to video_duration and attached to the video.  Durations are whole       *)
(* numbers of time units and a clip is its sequence of frames, one per     *)
(* unit; the frames of a converted clip are sound, those of the padding    *)
(* are the zeros of `lambda t: [0, 0]`.                                    *)
(***************************************************************************)
Frames == {1, 2}
Clips == UNION {[1..n -> Frames] : n \in 0..(MaxDuration + 1)}

\* clip.duration
Duration(clip) == Len(clip)

\* a slip in line 1351: the clip is kept whole
SubclippedWhole(clip, t0, t1) == clip

\* line 1351: clip.subclipped(t0, t1)
Subclipped(clip, t0, t1) == SubSeq(clip, t0 + 1, t1)

\* line 1355: AudioClip(lambda t: [0, 0], duration=d)
SilenceClip(d) == [k \in 1..d |-> 0]

\* line 1356: concatenate_audioclips([a, b])
ConcatenateAudioclips(a, b) == a \o b

RecInit ==
    /\ video_duration \in 1..MaxDuration
    /\ converted_audio_clip \in Clips
    /\ rec_in = converted_audio_clip
    /\ rec_pc = "compare"

\* lines 1350-1351
rec_subclip ==
    /\ rec_pc = "compare"
    /\ Duration(converted_audio_clip) > video_duration
    /\ converted_audio_clip' = Subclipped(converted_audio_clip, 0, video_duration)
    /\ rec_pc' = "attach"
    /\ UNCHANGED <<video_duration, rec_in, mgrVars, otherVars, splitVars, effVars, chunkVars>>

\* lines 1352-1356
rec_pad ==
    /\ rec_pc = "compare"
    /\ ~(Duration(converted_audio_clip) > video_duration)
    /\ Duration(converted_audio_clip) < video_duration
    /\ LET silence_duration == video_duration - Duration(converted_audio_clip)
       IN  converted_audio_clip' =
               ConcatenateAudioclips(converted_audio_clip, SilenceClip(silence_duration))
    /\ rec_pc' = "attach"
    /\ UNCHANGED <<video_duration, rec_in, mgrVars, otherVars, splitVars, effVars, chunkVars>>

\* neither branch of 1350-1356 is taken
rec_pass ==
    /\ rec_pc = "compare"
    /\ ~(Duration(converted_audio_clip) > video_duration)
    /\ ~(Duration(converted_audio_clip) < video_duration)
    /\ rec_pc' = "attach"
    /\ UNCHANGED <<video_duration, converted_audio_clip, rec_in, mgrVars, otherVars, splitVars,
                   effVars, chunkVars>>

\* line 1359: video_clip.with_audio(converted_audio_clip)
rec_attach ==
    /\ rec_pc = "attach"
    /\ rec_pc' = "done"
    /\ UNCHANGED <<video_duration, converted_audio_clip, rec_in, mgrVars, otherVars, splitVars,
                   effVars, chunkVars>>

RecNext ==
    \/ rec_subclip
    \/ rec_pad
    \/ rec_pass
    \/ rec_attach

ReconcileSpecInit == MgrInit /\ SplitIdle /\ EffIdle /\ ChunkIdle /\ RecInit /\ OtherIdle

ReconcileSpec == ReconcileSpecInit /\ [][RecNext]_vars

(***************************************************************************)
(* safe_file_cleanup(file_path, max_retries=3, delay=0.1), main.py 182-195 *)
(* (app.py 23-36 is the same code).  Every caller leaves max_retries and   *)
(* delay at their defaults.  Sleeps are counted in units of delay.         *)
(*                                                                         *)
(* os.unlink is external: on an existing file it deletes it, or raises     *)
(* PermissionError (another process holds the file) or another OSError (an *)
(* I/O error, a read-only file system); on a missing path it raises        *)
(* FileNotFoundError.  Other processes may take and release the file, or   *)
(* delete it, at any moment.                                               *)
(*                                                                         *)
(* The caller is a cleanup sequence such as main.py 1400-1402: it hands    *)
(* one path after another to safe_file_cleanup, ignoring the value         *)
(* returned; an exception leaving safe_file_cleanup ends the sequence.     *)
(***************************************************************************)
MaxPaths == 3
MaxRetries == 3

\* line 188: what os.unlink may raise here
UnlinkErrors ==
    IF ~file_exists THEN {"FileNotFoundError"}
    ELSE IF locked THEN {"PermissionError"}
    ELSE {"OSError"}

\* line 192: the sleep after failed attempt a, in units of delay
Backoff(a) == a + 1

\* line 182: a call starts, on a path in any condition
SfcEnter ==
    /\ file_exists' \in BOOLEAN
    /\ locked' \in BOOLEAN
    /\ file_exists' \/ ~locked'
    /\ attempt' = 0
    /\ sfc_pc' = "exists"
    /\ sfc_result' = "none"
    /\ backoffs' = <<>>
    /\ errors' = <<>>

CleanInit ==
    /\ file_exists \in BOOLEAN
    /\ locked \in BOOLEAN
    /\ file_exists \/ ~locked
    /\ attempt = 0
    /\ sfc_pc = "exists"
    /\ sfc_result = "none"
    /\ backoffs = <<>>
    /\ errors = <<>>
    /\ sfc_returns = <<>>

\* lines 184-187 and 189: the path is looked up; absent, the call returns True
sfc_exists ==
    /\ sfc_pc = "exists"
    /\ IF file_exists
       THEN sfc_pc' = "unlink" /\ UNCHANGED sfc_result
       ELSE sfc_pc' = "done" /\ sfc_result' = "True"
    /\ UNCHANGED <<file_exists, locked, attempt, backoffs, errors, sfc_returns,
                   notCleanVars>>

\* lines 188-194: os.unlink deletes the file (189: return True) or raises;
\* an error the except clause names (190) is retried after the backoff, or
\* ends the call with False on the last attempt; any other error leaves the
\* function
sfc_unlink ==
    /\ sfc_pc = "unlink"
    /\ \/ /\ file_exists /\ ~locked
          /\ file_exists' = FALSE
          /\ sfc_result' = "True"
          /\ sfc_pc' = "done"
          /\ UNCHANGED <<attempt, backoffs, errors>>
       \/ \E err \in UnlinkErrors :
             /\ errors' = Append(errors, err)
             /\ UNCHANGED file_exists
             /\ IF err \notin {"PermissionError", "FileNotFoundError"}
                THEN /\ sfc_result' = "raised"
                     /\ sfc_pc' = "done"
                     /\ UNCHANGED <<attempt, backoffs>>
                ELSE IF attempt < MaxRetries - 1
                THEN /\ backoffs' = Append(backoffs, Backoff(attempt))
                     /\ attempt' = attempt + 1
                     /\ sfc_pc' = "exists"
                     /\ UNCHANGED sfc_result
                ELSE /\ sfc_result' = "False"
                     /\ sfc_pc' = "done"
                     /\ UNCHANGED <<attempt, backoffs>>
    /\ UNCHANGED <<locked, sfc_returns,
                   notCleanVars>>

\* another process opens the file, or closes it again
other_process_holds ==
    /\ sfc_pc \in {"exists", "unlink"}
    /\ file_exists
    /\ locked' = ~locked
    /\ UNCHANGED <<file_exists, attempt, sfc_pc, sfc_result, backoffs, errors,
                   sfc_returns,
                   notCleanVars>>

\* another process deletes the file while the call is running
other_process_deletes ==
    /\ sfc_pc \in {"exists", "unlink"}
    /\ file_exists
    /\ ~locked
    /\ file_exists' = FALSE
    /\ UNCHANGED <<locked, attempt, sfc_pc, sfc_result, backoffs, errors,
                   sfc_returns,
                   notCleanVars>>

\* the caller takes the value returned and cleans its next path
sfc_next_path ==
    /\ sfc_pc = "done"
    /\ sfc_result \in {"True", "False"}
    /\ Len(sfc_returns) + 1 < MaxPaths
    /\ sfc_returns' = Append(sfc_returns, sfc_result)
    /\ SfcEnter
    /\ UNCHANGED <<notCleanVars>>

CleanNext ==
    \/ sfc_exists
    \/ sfc_unlink
    \/ other_process_holds
    \/ other_process_deletes
    \/ sfc_next_path

CleanupSpecInit ==
    MgrInit /\ SplitIdle /\ EffIdle /\ ChunkIdle /\ RecIdle /\ CleanInit /\ VidIdle
    /\ EntryIdle /\ InstIdle

CleanupSpec == CleanupSpecInit /\ [][CleanNext]_vars

(***************************************************************************)
(* video_voice_conversion, main.py 1166-1402.  Durations are in seconds.   *)
(* Every temp file is made with NamedTemporaryFile(delete=False), and each *)
(* of the four path variables is assigned only after the step that fills   *)
(* the file has returned.  The steps in between are external calls that    *)
(* return or raise.                                                        *)
(*                                                                         *)
(* HTTPException is a subclass of Exception: one raised inside a try block *)
(* is caught by that block's `except Exception`, and every exception       *)
(* raised inside the outer try block (1204) is caught at 1386.             *)
(***************************************************************************)
FallbackDuration == 60

\* what a container can report as its duration: None, 0, or a length
Reported == {NoDuration} \cup (0..MaxDuration)

\* lines 1251 and 1273: the test `d is None or d <= 0`
NoneOrNotPositive(d) == d = NoDuration \/ d <= 0

\* lines 1386-1402: the outer except clause hands the paths that are set
\* (`if path and os.path.exists(path)`) to safe_file_cleanup and raises the
\* 500 "Video conversion failed"; the finally clause goes over the first
\* three again
VidExcept(err, made, paths) ==
    /\ raised' = raised \o err \o <<"500 Video conversion failed">>
    /\ response' = "500 Video conversion failed"
    /\ tmp_made' = made
    /\ cleanup_attempted' = paths
    /\ vid_pc' = "done"

\* the paths assigned so far
PathsNow ==
    {video_path, audio_path, converted_audio_path, final_video_path} \ {"None"}

VidInit ==
    /\ vid_pc = "enter"
    /\ file_extension = ".mp4"
    /\ duration = NoDuration
    /\ probed = NoDuration
    /\ clip_reported = NoDuration
    /\ video_path = "None"
    /\ audio_path = "None"
    /\ converted_audio_path = "None"
    /\ final_video_path = "None"
    /\ tmp_made = {}
    /\ cleanup_attempted = {}
    /\ raised = <<>>
    /\ response = "none"

\* lines 1181-1202: the checks before the try block
vid_enter ==
    /\ vid_pc = "enter"
    /\ \/ /\ vid_pc' = "upload"
          /\ UNCHANGED <<raised, response>>
       \/ \E err \in {"503 VC model not available", "404 Voice sample not found",
                      "404 Voice file not found on disk"} :
             /\ raised' = <<err>>
             /\ response' = err
             /\ vid_pc' = "done"
    /\ UNCHANGED <<file_extension, duration, probed, clip_reported, video_path,
                   audio_path, converted_audio_path, final_video_path, tmp_made,
                   cleanup_attempted, video_duration, notVidVars>>

\* lines 1206-1227: the extension is chosen and the upload copied to tmp_video
vid_upload ==
    /\ vid_pc = "upload"
    /\ \E ext \in {".mp4", ".webm", ".avi", ".mov", ".mkv"} :
          /\ file_extension' = ext
          /\ \/ /\ video_path' = "tmp_video"
                /\ tmp_made' = tmp_made \cup {"tmp_video"}
                /\ vid_pc' = IF ext = ".webm" THEN "probe" ELSE "open"
                /\ UNCHANGED <<cleanup_attempted, raised, response>>
             \/ /\ VidExcept(<<"write">>, tmp_made \cup {"tmp_video"}, PathsNow)
                /\ UNCHANGED video_path
    /\ UNCHANGED <<duration, probed, clip_reported, audio_path,
                   converted_audio_path, final_video_path, video_duration,
                   notVidVars>>

\* lines 1230-1261: ffprobe on a WebM upload; the estimate is what the
\* container's format says, or 60 when that is missing or not positive, when
\* ffprobe fails and when anything raises
vid_probe ==
    /\ vid_pc = "probe"
    /\ \/ \E d \in Reported :
             /\ probed' = d
             /\ duration' = IF NoneOrNotPositive(d) THEN FallbackDuration ELSE d
       \/ /\ probed' = NoDuration
          /\ duration' = FallbackDuration
    /\ vid_pc' = "open"
    /\ UNCHANGED <<file_extension, clip_reported, video_path, audio_path,
                   converted_audio_path, final_video_path, tmp_made,
                   cleanup_attempted, raised, response, video_duration,
                   notVidVars>>

\* lines 1276-1284: what the inner except clause raises
VideoError == 
    IF file_extension = ".webm" THEN "400 WebM video format is not fully supported"
    ELSE "500 Failed to process video"

\* lines 1264-1284: the video is opened; it may fail to open, or have no
\* audio track, which raises the 400 inside the inner try block
vid_open ==
    /\ vid_pc = "open"
    /\ \/ /\ VidExcept(<<"VideoFileClip", VideoError>>, tmp_made, PathsNow)
          /\ UNCHANGED <<clip_reported, video_duration>>
       \/ /\ VidExcept(<<"400 Video has no audio track", VideoError>>, tmp_made,
                       PathsNow)
          /\ UNCHANGED <<clip_reported, video_duration>>
       \/ \E d \in Reported :
             /\ clip_reported' = d
             /\ video_duration' =
                   IF NoneOrNotPositive(d) /\ file_extension = ".webm"
                   THEN duration ELSE d
             /\ vid_pc' = "extract"
             /\ UNCHANGED <<tmp_made, cleanup_attempted, raised, response>>
    /\ UNCHANGED <<file_extension, duration, probed, video_path, audio_path,
                   converted_audio_path, final_video_path, notVidVars>>

\* lines 1287-1295: the audio track is written to tmp_audio
vid_extract ==
    /\ vid_pc = "extract"
    /\ \/ /\ audio_path' = "tmp_audio"
          /\ tmp_made' = tmp_made \cup {"tmp_audio"}
          /\ vid_pc' = "convert"
          /\ UNCHANGED <<cleanup_attempted, raised, response>>
       \/ /\ VidExcept(<<"write_audiofile", "500 Failed to extract audio">>,
                       tmp_made \cup {"tmp_audio"}, PathsNow)
          /\ UNCHANGED audio_path
    /\ UNCHANGED <<file_extension, duration, probed, clip_reported, video_path,
                   converted_audio_path, final_video_path, video_duration,
                   notVidVars>>

\* lines 1298-1337: the audio is converted, in chunks or whole; the split
\* may give no chunks, the whole conversion may raise
vid_convert ==
    /\ vid_pc = "convert"
    /\ \/ /\ vid_pc' = "save"
          /\ UNCHANGED <<tmp_made, cleanup_attempted, raised, response>>
       \/ \E err \in {"500 Failed to split audio into chunks", "generate"} :
             VidExcept(<<err>>, tmp_made, PathsNow)
    /\ UNCHANGED <<file_extension, duration, probed, clip_reported, video_path,
                   audio_path, converted_audio_path, final_video_path,
                   video_duration, notVidVars>>

\* lines 1340-1342: the converted audio is saved to tmp_converted
vid_save ==
    /\ vid_pc = "save"
    /\ \/ /\ converted_audio_path' = "tmp_converted"
          /\ tmp_made' = tmp_made \cup {"tmp_converted"}
          /\ vid_pc' = "match"
          /\ UNCHANGED <<cleanup_attempted, raised, response>>
       \/ /\ VidExcept(<<"ta.save">>, tmp_made \cup {"tmp_converted"}, PathsNow)
          /\ UNCHANGED converted_audio_path
    /\ UNCHANGED <<file_extension, duration, probed, clip_reported, video_path,
                   audio_path, final_video_path, video_duration, notVidVars>>

\* lines 1346-1359 and 1376-1377: the durations are matched; comparing with
\* a video_duration of None raises TypeError, and opening a clip may raise
vid_match ==
    /\ vid_pc = "match"
    /\ \/ /\ video_duration # NoDuration
          /\ vid_pc' = "encode"
          /\ UNCHANGED <<tmp_made, cleanup_attempted, raised, response>>
       \/ \E err \in (IF video_duration = NoDuration THEN {"TypeError"}
                      ELSE {"VideoFileClip"}) :
             VidExcept(<<err, "500 Failed to combine video and audio">>,
                       tmp_made, PathsNow)
    /\ UNCHANGED <<file_extension, duration, probed, clip_reported, video_path,
                   audio_path, converted_audio_path, final_video_path,
                   video_duration, notVidVars>>

\* lines 1362-1377: the output video is written to tmp_final
vid_encode ==
    /\ vid_pc = "encode"
    /\ \/ /\ final_video_path' = "tmp_final"
          /\ tmp_made' = tmp_made \cup {"tmp_final"}
          /\ vid_pc' = "return"
          /\ UNCHANGED <<cleanup_attempted, raised, response>>
       \/ /\ VidExcept(<<"write_videofile", "500 Failed to combine video and audio">>,
                       tmp_made \cup {"tmp_final"}, PathsNow)
          /\ UNCHANGED final_video_path
    /\ UNCHANGED <<file_extension, duration, probed, clip_reported, video_path,
                   audio_path, converted_audio_path, video_duration, notVidVars>>

\* lines 1380-1384 and 1398-1402: the FileResponse is returned and the
\* finally clause hands the three intermediate paths to safe_file_cleanup
vid_return ==
    /\ vid_pc = "return"
    /\ response' = "200 FileResponse"
    /\ cleanup_attempted' =
          {video_path, audio_path, converted_audio_path} \ {"None"}
    /\ vid_pc' = "done"
    /\ UNCHANGED <<file_extension, duration, probed, clip_reported, video_path,
                   audio_path, converted_audio_path, final_video_path, tmp_made,
                   raised, video_duration, notVidVars>>

VidNext ==
    \/ vid_enter
    \/ vid_upload
    \/ vid_probe
    \/ vid_open
    \/ vid_extract
    \/ vid_convert
    \/ vid_save
    \/ vid_match
    \/ vid_encode
    \/ vid_return

VideoSpecInit ==
    MgrInit /\ SplitIdle /\ EffIdle /\ ChunkIdle /\ RecIdle /\ CleanIdle /\ VidInit
    /\ EntryIdle /\ InstIdle

VideoSpec == VideoSpecInit /\ [][VidNext]_vars

(***************************************************************************)
(* The three conversion endpoints that take chunk_duration and             *)
(* enable_chunking: voice_conversion (/api/voice-conversion, main.py       *)
(* 1076-1164), voice_conversion_with_voice (/api/voice-conversion/         *)
(* with-voice, 953-1074) and video_voice_conversion (/api/video-conversion,*)
(* 1166-1402).  Audio is measured in whole seconds; what is recorded is    *)
(* how much audio each call of vc_model.generate receives.                 *)
(***************************************************************************)
\* lines 350-352 seen in seconds: the lengths of the chunks of n seconds of
\* audio cut every c seconds
RECURSIVE ChunkSeconds(_, _, _)
ChunkSeconds(n, c, i) ==
    IF i >= n THEN <<>>
    ELSE <<Len(PySlice([k \in 1..n |-> 0], i, i + c))>> \o ChunkSeconds(n, c, i + c)

EntryInit ==
    /\ endpoint \in {"voice_conversion", "voice_conversion_with_voice",
                     "video_voice_conversion"}
    /\ enable_chunking \in BOOLEAN
    /\ chunk_duration \in 1..MaxChunkSeconds
    /\ input_seconds \in 1..MaxLen
    /\ audio_duration = 0
    /\ ent_chunks = <<>>
    /\ ent_pc = "start"
    /\ fed = <<>>

\* lines 994 and 1298: get_audio_duration_seconds (197-204) gives the length
\* of the audio, or 0 when librosa.load raises; voice_conversion does not
\* measure its input at all
ent_duration ==
    /\ ent_pc = "start"
    /\ IF endpoint = "voice_conversion"
       THEN /\ ent_pc' = "whole"
            /\ UNCHANGED audio_duration
       ELSE /\ ent_pc' = "decide"
            /\ audio_duration' \in {input_seconds, 0}
    /\ UNCHANGED <<endpoint, enable_chunking, chunk_duration, input_seconds,
                   ent_chunks, fed, notEntryVars>>

\* lines 995-1004 and 1299-1308: use_chunking, and the split when it holds;
\* split_audio_into_chunks gives the chunks or, on an error, none
ent_decide ==
    /\ ent_pc = "decide"
    /\ IF enable_chunking /\ audio_duration > chunk_duration
       THEN \/ /\ ent_chunks' = ChunkSeconds(input_seconds, chunk_duration, 0)
               /\ ent_pc' = "chunks"
            \/ /\ ent_chunks' = <<>>
               /\ ent_pc' = "failed"
       ELSE /\ ent_pc' = "whole"
            /\ UNCHANGED ent_chunks
    /\ UNCHANGED <<endpoint, enable_chunking, chunk_duration, input_seconds,
                   audio_duration, fed, notEntryVars>>

\* lines 1022, 1112 and 1326: vc_model.generate on the whole input file
ent_whole ==
    /\ ent_pc = "whole"
    /\ fed' = Append(fed, [seconds |-> input_seconds, whole |-> TRUE])
    /\ ent_pc' \in {"done", "failed"}
    /\ UNCHANGED <<endpoint, enable_chunking, chunk_duration, input_seconds,
                   audio_duration, ent_chunks, notEntryVars>>

\* lines 1006 and 1310 (process_audio_chunks, 386-398): vc_model.generate on
\* the next chunk
ent_chunk ==
    /\ ent_pc = "chunks"
    /\ Len(fed) < Len(ent_chunks)
    /\ fed' = Append(fed, [seconds |-> ent_chunks[Len(fed) + 1], whole |-> FALSE])
    /\ UNCHANGED <<endpoint, enable_chunking, chunk_duration, input_seconds,
                   audio_duration, ent_chunks, ent_pc, notEntryVars>>

\* lines 418-420: all chunks are converted
ent_combine ==
    /\ ent_pc = "chunks"
    /\ Len(fed) >= Len(ent_chunks)
    /\ ent_pc' = "done"
    /\ UNCHANGED <<endpoint, enable_chunking, chunk_duration, input_seconds,
                   audio_duration, ent_chunks, fed, notEntryVars>>

EntryNext ==
    \/ ent_duration
    \/ ent_decide
    \/ ent_whole
    \/ ent_chunk
    \/ ent_combine

EntrySpecInit ==
    MgrInit /\ SplitIdle /\ EffIdle /\ ChunkIdle /\ RecIdle /\ CleanIdle /\ VidIdle
    /\ EntryInit /\ InstIdle

EntrySpec == EntrySpecInit /\ [][EntryNext]_vars

(***************************************************************************)
(* The PyTorch installers: install_pytorch of setup_chatterbox.py 34-89    *)
(* ("setup_chatterbox") and install_cuda_pytorch of install_cuda_pytorch.py*)
(* 72-154 ("install_cuda_pytorch").  pip and the test subprocess are       *)
(* external: an install succeeds or fails, and the test of an installed    *)
(* build prints "CUDA available: True" (possible only with a GPU), prints  *)
(* "CUDA available: False", or fails (non-zero exit, timeout, exception).  *)
(***************************************************************************)
\* setup_chatterbox.py 63-67, install_cuda_pytorch.py 85-101
Options == <<"CUDA 12.1", "CUDA 11.8", "CPU fallback">>

TestOutcomes ==
    (IF has_nvidia_gpu THEN {"CUDA available: True"} ELSE {})
    \cup {"CUDA available: False", "test failed"}

\* what the loop does with an installed option whose test ended in t:
\* setup_chatterbox.py 76-83 returns True only on "CUDA available: True";
\* install_cuda_pytorch.py 125-149 also on the CPU fallback, when its test ran
ReturnsTrue(t) ==
    \/ t = "CUDA available: True"
    \/ /\ installer = "install_cuda_pytorch"
       /\ t = "CUDA available: False"
       /\ Options[option] = "CPU fallback"

\* the loop goes on to the next option, or is over and the function
\* returns False (setup_chatterbox.py 85-86, install_cuda_pytorch.py 153-154)
NextOption ==
    IF option < Len(Options)
    THEN /\ option' = option + 1
         /\ inst_pc' = "install"
         /\ UNCHANGED inst_result
    ELSE /\ inst_result' = "False"
         /\ inst_pc' = "done"
         /\ UNCHANGED option

InstInit ==
    /\ installer \in {"setup_chatterbox", "install_cuda_pytorch"}
    /\ has_nvidia_gpu \in BOOLEAN
    /\ option = 0
    /\ inst_pc = "check"
    /\ inst_result = "none"
    /\ tried = <<>>

\* setup_chatterbox.py 38-61 and 87-88: an importable torch ends the
\* function with True; otherwise nvidia-smi decides between the chain and the
\* CPU install.  install_cuda_pytorch.py 77-82 uninstalls and starts the chain
inst_check ==
    /\ inst_pc = "check"
    /\ \/ /\ installer = "setup_chatterbox"
          /\ inst_result' = "True"
          /\ inst_pc' = "done"
          /\ UNCHANGED option
       \/ /\ installer = "setup_chatterbox" => has_nvidia_gpu
          /\ option' = 1
          /\ inst_pc' = "install"
          /\ UNCHANGED inst_result
       \/ /\ installer = "setup_chatterbox"
          /\ ~has_nvidia_gpu
          /\ inst_pc' = "cpu_only"
          /\ UNCHANGED <<option, inst_result>>
    /\ UNCHANGED <<installer, has_nvidia_gpu, tried, notInstVars>>

\* setup_chatterbox.py 89: without a GPU the result is that of the CPU install
inst_cpu_only ==
    /\ inst_pc = "cpu_only"
    /\ \E ok \in BOOLEAN :
          /\ tried' = Append(tried, [version |-> "CPU version", installed |-> ok,
                                     test |-> "none"])
          /\ inst_result' = IF ok THEN "True" ELSE "False"
    /\ inst_pc' = "done"
    /\ UNCHANGED <<installer, has_nvidia_gpu, option, notInstVars>>

\* setup_chatterbox.py 69-71, install_cuda_pytorch.py 103-106: run_command
\* installs the option, and a failed install moves on
inst_install ==
    /\ inst_pc = "install"
    /\ \/ /\ inst_pc' = "test"
          /\ UNCHANGED <<option, inst_result, tried>>
       \/ /\ tried' = Append(tried, [version |-> Options[option],
                                     installed |-> FALSE, test |-> "none"])
          /\ NextOption
    /\ UNCHANGED <<installer, has_nvidia_gpu, notInstVars>>

\* setup_chatterbox.py 73-83, install_cuda_pytorch.py 108-149: the installed
\* build is tested
inst_test ==
    /\ inst_pc = "test"
    /\ \E t \in TestOutcomes :
          /\ tried' = Append(tried, [version |-> Options[option],
                                     installed |-> TRUE, test |-> t])
          /\ IF ReturnsTrue(t)
             THEN /\ inst_result' = "True"
                  /\ inst_pc' = "done"
                  /\ UNCHANGED option
             ELSE NextOption
    /\ UNCHANGED <<installer, has_nvidia_gpu, notInstVars>>

InstNext ==
    \/ inst_check
    \/ inst_cpu_only
    \/ inst_install
    \/ inst_test

InstallSpecInit ==
    MgrInit /\ SplitIdle /\ EffIdle /\ ChunkIdle /\ RecIdle /\ CleanIdle /\ VidIdle
    /\ EntryIdle /\ InstInit

InstallSpec == InstallSpecInit /\ [][InstNext]_vars

(***************************************************************************)
(* Properties of the model lifecycle manager.                              *)
(***************************************************************************)
\* p is inside the body of load_models (lines 97-101)
Loading(p) == pc[p] \in {"load_tts", "load_vc", "load_set"}

\* no thread but p has run anything yet, and no timer thread is alive
Alone(p) == \A q \in Procs \ {p} : pc[q] = "idle"

\* the manager holds both models, loaded on device d (spec 4.6 "Loaded")
LoadedOn(d) ==
    /\ tts_model = d
    /\ vc_model = d
    /\ current_device = d
    /\ model_load_time # NoTime

\* C1: at most one load.  Of the Ensure calls (TTS and conversion handlers)
\* issued for the same device while the manager is Unloaded, no two are
\* inside the body of load_models together: one load operation executes.
C1_AtMostOneLoad ==
    \A p, q \in Reqs :
        (/\ Loading(p) /\ Loading(q)
         /\ kind[p] \in {"tts", "vc"} /\ kind[q] \in {"tts", "vc"}
         /\ entry_unloaded[p] /\ entry_unloaded[q]
         /\ device[p] = device[q]) => p = q

\* C2: no teardown mid-use.  While a request that has passed its ensure/load
\* step is between that step and its last use of the model (generate, then
\* the read of the sample rate when saving), the model it uses is not
\* unloaded (None).
C2_NoTeardownMidUse ==
    \A r \in Reqs : pc[r] \in {"generate", "save"} => UsedModel(r) # NoModel

\* C3: idle eviction only when idle.  A timer thread that fires and unloads
\* the models does so only if no request has ensured or used a model since
\* the thread was started.
C3_EvictOnlyWhenIdle ==
    [][\A t \in Timers :
          (pc[t] = "sleep" /\ pc'[t] = "idle" /\ Mgr' # Mgr) => ~used_since[t]]_vars

\* C4: every successful conversion, of any kind, arms an idle-eviction timer
\* as it ends (the premise of eviction liveness).
C4_EveryConversionArmsTimer ==
    [][\A r \in Reqs :
          (pc[r] = "save" /\ pc'[r] = "ok") =>
              \E t \in Timers : pc[t] # "sleep" /\ pc'[t] = "sleep" /\ armed'[t] = now]_vars

\* C5: timers do not stack.  At most one idle-eviction timer is pending.
C5_TimersDoNotStack == Cardinality({t \in Timers : pc[t] = "sleep"}) <= 1

\* C6: Ensure on a manager Loaded on the requested device performs no load,
\* hands out the existing model and refreshes the last-used timestamp
\* (model_load_time) to the time of the call.
C6_EnsureRefreshesLastUsed ==
    [][\A r \in Reqs :
          (/\ pc[r] \in {"ensure_tts", "vc_check"}
           /\ pc'[r] # pc[r]
           /\ LoadedOn(DefaultDevice)) =>
              /\ pc'[r] = "generate"
              /\ UsedModel(r)' = DefaultDevice
              /\ model_load_time' = now]_vars

\* C7: device switch.  When a load is requested for another device than the
\* one the manager is Loaded on, the old models are unloaded before the new
\* ones are loaded: once the first new model is in place, models of two
\* different devices are not loaded at once (stated for a thread that has
\* been the only one to run).
C7_OneDeviceAtATime ==
    [][\A r \in Reqs :
          (/\ pc[r] = "load_tts"
           /\ pc'[r] = "load_vc"
           /\ Alone(r)
           /\ \E d \in Devices : LoadedOn(d) /\ d # device[r]) =>
              ~(/\ tts_model' # NoModel
                /\ vc_model' # NoModel
                /\ tts_model' # vc_model')]_vars

\* C8: load failure reverts to Unloaded.  A load that began with the manager
\* Unloaded and fails (at the TTS load or at the conversion-model load)
\* leaves the manager Unloaded, and the Ensure caller gets the load error
\* (stated for a thread that has been the only one to run).
C8_LoadFailureRevertsToUnloaded ==
    [][\A r \in Reqs :
          (/\ pc[r] \in {"load_tts", "load_vc"}
           /\ pc'[r] \notin {"load_tts", "load_vc", "load_set"}
           /\ kind[r] \in {"tts", "vc"}
           /\ entry_unloaded[r]
           /\ Alone(r)) =>
              /\ pc'[r] = "load_error"
              /\ IsUnloaded(Mgr')]_vars

\* C9: unload idempotence.  unload_models is allowed in every state and
\* leaves the manager Unloaded; on an Unloaded manager it changes nothing;
\* two unloads in a row leave the state one leaves; the request never ends
\* in an error.
C9_UnloadIdempotent ==
    /\ [](/\ IsUnloaded(UnloadModels(Mgr))
          /\ UnloadModels(UnloadModels(Mgr)) = UnloadModels(Mgr)
          /\ IsUnloaded(Mgr) => UnloadModels(Mgr) = Mgr)
    /\ [][\A r \in Reqs :
            (pc[r] = "unload" /\ pc'[r] # "unload") =>
                /\ pc'[r] = "ok"
                /\ Mgr' = UnloadModels(Mgr)
                /\ IsUnloaded(Mgr) => Mgr' = Mgr]_vars

\* C9 witness: an unload request has ended that found the manager already
\* Unloaded, and the manager is Unloaded.
C9_Witness ==
    \E r \in Reqs :
        /\ kind[r] = "unload"
        /\ pc[r] = "ok"
        /\ entry_unloaded[r]
        /\ IsUnloaded(Mgr)

(***************************************************************************)
(* Properties of the chunk splitter.                                       *)
(***************************************************************************)
\* C10: split/combine round trip.  For a decoded (resampled) signal and a
\* chunk duration > 0, the chunks split_audio_into_chunks returns,
\* concatenated in index order, are the signal's samples exactly.
C10_SplitRoundTrip ==
    (split_pc = "done" /\ chunk_duration_seconds > 0) => Concatenate(chunks) = audio

\* C10 witness: a split has returned several chunks, the last one shorter
\* than the others.
C10_Witness ==
    /\ split_pc = "done"
    /\ chunk_duration_seconds > 0
    /\ Len(chunks) >= 2
    /\ Len(audio) % ChunkSize(chunk_duration_seconds, sample_rate) # 0
    /\ Concatenate(chunks) = audio

\* the ceiling of a / b for a >= 0 and b > 0
CeilDiv(a, b) == (a + b - 1) \div b

\* C11: split shape.  For a decoded signal of L samples and a chunk size
\* S = chunk_duration_seconds * sample_rate > 0, split_audio_into_chunks
\* returns ceil(L / S) chunks; every chunk but the last has exactly S
\* samples, the last has between 1 and S, no chunk is empty, and an empty
\* signal gives an empty list.
C11_SplitShape ==
    (split_pc = "done" /\ chunk_duration_seconds * sample_rate > 0) =>
        LET S == chunk_duration_seconds * sample_rate
            N == Len(chunks)
        IN  /\ N = CeilDiv(Len(audio), S)
            /\ \A k \in 1..N : Len(chunks[k]) >= 1 /\ Len(chunks[k]) <= S
            /\ \A k \in 1..(N - 1) : Len(chunks[k]) = S
            /\ (audio = <<>> => chunks = <<>>)

\* C11 witness: the shape of the 150 s / 60 s case at small scale: full
\* chunks followed by a remainder of half a chunk.
C11_Witness ==
    /\ split_pc = "done"
    /\ chunk_duration_seconds * sample_rate = 2
    /\ Len(audio) = 3
    /\ Len(chunks) = 2
    /\ Len(chunks[1]) = 2
    /\ Len(chunks[2]) = 1

(***************************************************************************)
(* Properties of the chunk loops.                                          *)
(***************************************************************************)
\* the elements of converted_chunks that stand for input chunk i (0-based)
OutcomesOf(i) == {k \in 1..Len(outcomes) : outcomes[k].index = i}

\* the elements of converted_chunks that are substituted silence
Substituted == {k \in 1..Len(outcomes) : ~outcomes[k].ok}

\* C12: silence-substitution length invariant.  The outcome substituted for
\* a chunk whose conversion failed is all zeros, has the sample count of the
\* input chunk and its sample rate: in the combined output, which is a
\* signal at the rate vc_model.sr, it lasts as long as the chunk lasted in
\* the input at the rate sample_rate.
C12_SilenceSameShape ==
    \A k \in Substituted :
        LET chunk == chunks[outcomes[k].index + 1]
            out == converted_chunks[k]
        IN  /\ \A n \in 1..Len(out) : out[n] = 0
            /\ Len(out) = Len(chunk)
            /\ Len(out) * sample_rate = Len(chunk) * model_sr

C14_LengthUnchangedByFailures ==
    (cp_pc = "done" /\ pitch_shift = 0 /\ speed_factor = 1 /\ volume_factor = 1) =>
        \A k \in Substituted :
            \A v \in Voices :
                Len(converted_chunks[k])
                   = Len(GenOut(chunks[outcomes[k].index + 1], v))

\* C15: exactly one outcome per chunk.  When the outcomes are combined every
\* chunk index 0..N-1 is represented exactly once, whatever failed while the
\* chunks were processed.
C15_OneOutcomePerChunk ==
    cp_pc = "done" =>
        /\ Len(converted_chunks) = Len(chunks)
        /\ \A i \in 0..(Len(chunks) - 1) : Cardinality(OutcomesOf(i)) = 1

\* C16: order-preserving assembly.  In the combined output the k-th segment
\* is the outcome of input chunk k, for every k, whichever chunks failed.
C16_OrderPreserving ==
    cp_pc = "done" =>
        \A k \in 1..Len(chunks) :
            /\ k <= Len(converted_chunks)
            /\ outcomes[k].index = k - 1

(***************************************************************************)
(* Properties of apply_audio_effects.                                      *)
(***************************************************************************)
\* the stage has completed in this call
Applied(stage) == \E k \in 1..Len(eff_applied) : eff_applied[k] = stage

\* every sample of s lies in [-1.0, 1.0]
WithinFullScale(s) ==
    \A k \in 1..Len(s) : s[k] >= 0 - FullScale /\ s[k] <= FullScale

\* the stages whose parameter is not at its no-op value, in the order of the code
ActiveStages ==
    (IF pitch_shift # 0 THEN <<"pitch">> ELSE <<>>)
    \o (IF speed_factor # 1 THEN <<"speed">> ELSE <<>>)
    \o (IF volume_factor # 1 THEN <<"volume">> ELSE <<>>)

\* the input carrying the effects of the stages that completed, and no other
EffectsOfApplied ==
    LET a1 == IF Applied("pitch") THEN PitchShift(eff_in, pitch_shift) ELSE eff_in
        a2 == IF Applied("speed") THEN TimeStretch(a1, speed_factor) ELSE a1
    IN  IF Applied("volume") THEN Clip(Scale(a2, volume_factor)) ELSE a2

\* C17: effects no-op identity.  With pitch_shift = 0, speed_factor = 1.0 and
\* volume_factor = 1.0 apply_audio_effects runs no stage and returns its
\* input unchanged, whatever the input; and a parameter at its no-op value
\* skips exactly its own stage: the stages that run in a call that does not
\* raise are exactly those whose parameter is not at the no-op value.
C17_NoOpIdentity ==
    eff_pc = "done" =>
        /\ (pitch_shift = 0 /\ speed_factor = 1 /\ volume_factor = 1)
              => (audio_array = eff_in /\ eff_applied = <<>>)
        /\ pitch_shift = 0 => ~Applied("pitch")
        /\ speed_factor = 1 => ~Applied("speed")
        /\ volume_factor = 1 => ~Applied("volume")
        /\ eff_raised = "none" => eff_applied = ActiveStages

\* C17 witness: a call with all three parameters at their no-op values has
\* returned a signal that has a sample beyond full scale, untouched.
C17_Witness ==
    /\ eff_pc = "done"
    /\ pitch_shift = 0 /\ speed_factor = 1 /\ volume_factor = 1
    /\ audio_array = eff_in
    /\ ~WithinFullScale(audio_array)

\* C18 as claimed: for any volume factor (1.0 included), any pitch and speed
\* setting and any input, every sample of the returned signal lies in
\* [-1.0, 1.0].
C18_ClippingBound == eff_pc = "done" => WithinFullScale(audio_array)

\* C18 amended: when volume_factor is not 1.0 and neither librosa stage
\* raises, every sample of the returned signal lies in [-1.0, 1.0].
C18_ClippedWhenVolumeStageRuns ==
    (eff_pc = "done" /\ volume_factor # 1 /\ eff_raised = "none")
        => WithinFullScale(audio_array)

\* C18 witness: the volume stage has run on a signal that the scaling took
\* beyond full scale, on both sides.
C18_Witness ==
    /\ eff_pc = "done"
    /\ volume_factor # 1
    /\ eff_raised = "none"
    /\ pitch_shift = 0 /\ speed_factor = 1
    /\ \E k \in 1..Len(eff_in) : eff_in[k] * volume_factor > FullScale
    /\ \E k \in 1..Len(eff_in) : eff_in[k] * volume_factor < 0 - FullScale
    /\ WithinFullScale(audio_array)

\* C19: best-effort effects.  When a stage raises, apply_audio_effects still
\* returns: the returned signal carries exactly the effects of the stages
\* that completed before the failure (the input itself if the first active
\* stage failed) and no later stage is applied.
C19_BestEffort ==
    eff_pc = "done" =>
        /\ audio_array = EffectsOfApplied
        /\ eff_raised = "pitch" => eff_applied = <<>>
        /\ eff_raised = "speed" =>
              eff_applied = (IF pitch_shift # 0 THEN <<"pitch">> ELSE <<>>)
        /\ eff_raised # "none" => ~Applied("volume")

\* C19 witness: the pitch shift completed, the time stretch raised, the
\* volume stage was due: the pitch-shifted signal is returned.
C19_Witness ==
    /\ eff_pc = "done"
    /\ eff_raised = "speed"
    /\ eff_applied = <<"pitch">>
    /\ volume_factor # 1
    /\ audio_array = PitchShift(eff_in, pitch_shift)
    /\ audio_array # eff_in

(***************************************************************************)
(* Properties of the duration reconciliation.                              *)
(***************************************************************************)
\* C20: video duration reconciliation.  For every video duration D and
\* converted-audio duration A the audio attached to the output video lasts
\* exactly D: it is the converted audio cut to [0, D] when A > D, the
\* converted audio followed by D - A of silence when A < D, and the
\* converted audio itself when A = D.
C20_DurationReconciled ==
    rec_pc = "done" =>
        LET D == video_duration
            A == Len(rec_in)
        IN  /\ Len(converted_audio_clip) = D
            /\ A > D => converted_audio_clip = SubSeq(rec_in, 1, D)
            /\ A < D => /\ SubSeq(converted_audio_clip, 1, A) = rec_in
                        /\ \A k \in (A + 1)..D : converted_audio_clip[k] = 0
            /\ A = D => converted_audio_clip = rec_in

\* C20 witness: a converted track longer than the video has been cut to the
\* video's duration and attached.
C20_Witness ==
    /\ rec_pc = "done"
    /\ Len(rec_in) > video_duration
    /\ video_duration >= 2
    /\ Len(converted_audio_clip) = video_duration

(***************************************************************************)
(* Properties of the model pair.                                           *)
(***************************************************************************)
\* no thread is inside load_models or unload_models
NoLoadOrUnloadInProgress ==
    \A p \in Procs : pc[p] \notin {"load_check", "load_tts", "load_vc", "load_set",
                                   "unload"}

\* C29: model-pair consistency.  Whenever no load or unload is in progress,
\* tts_model and vc_model are both loaded or both None, and when loaded both
\* were loaded on the device reported as current_device.
C29_ModelPairConsistent ==
    NoLoadOrUnloadInProgress =>
        \/ tts_model = NoModel /\ vc_model = NoModel
        \/ tts_model = current_device /\ vc_model = current_device

(***************************************************************************)
(* Properties of safe_file_cleanup.                                        *)
(***************************************************************************)
\* C23: cleanup failures are never surfaced.  Whatever error the deletion
\* attempt produces, safe_file_cleanup does not raise to its caller: it
\* ends by returning True or False.
C23_CleanupNeverRaises ==
    sfc_pc = "done" => sfc_result \in {"True", "False"}

\* C26: bounded retrying release.  safe_file_cleanup ends after at most
\* max_retries deletion attempts; the waits between successive failed
\* attempts strictly increase; it returns True only with the file gone, and
\* False only after the last attempt has failed with the file still there.
C26_BoundedRetryingRelease ==
    /\ Len(errors) <= MaxRetries
    /\ \A k \in 1..(Len(backoffs) - 1) : backoffs[k] < backoffs[k + 1]
    /\ sfc_result = "True" => ~file_exists
    /\ sfc_result = "False" => (Len(errors) = MaxRetries /\ file_exists)

(***************************************************************************)
(* Properties of the chunk loops: temp files and effects.                  *)
(***************************************************************************)
\* C24: per-chunk temp files are released on success and on failure.  For
\* every chunk the loop has finished with, converted or failed, the temp
\* file made for the chunk has been handed to safe_file_cleanup.
C24_ChunkTempFilesReleased ==
    \A k \in 1..Len(outcomes) : outcomes[k].released

\* what apply_audio_effects returns for signal a when no stage raises
EffectsOn(a) ==
    LET a1 == IF PitchActive(pitch_shift) THEN PitchShift(a, pitch_shift) ELSE a
        a2 == IF SpeedActive(speed_factor) THEN TimeStretch(a1, speed_factor) ELSE a1
    IN  IF VolumeActive(volume_factor) THEN Clip(Scale(a2, volume_factor)) ELSE a2

\* the chunk outcomes before any effect, reassembled
Reassembled == Concatenate([k \in 1..Len(outcomes) |-> outcomes[k].raw])

\* C27: effects run after reassembly.  The result of a chunked conversion
\* is the effects applied once to the reassembled chunk outcomes, the
\* silence-substituted ones included.
C27_EffectsAfterReassembly ==
    cp_pc = "done" => combined_audio = EffectsOn(Reassembled)

(***************************************************************************)
(* Properties of video_voice_conversion.                                   *)
(***************************************************************************)
\* C21: duration fallback.  At the duration-matching step the target
\* duration is a positive number for every accepted container, and it is
\* the 60-second fallback whenever the container reported no usable
\* duration (None, or not positive), to VideoFileClip and to ffprobe alike.
C21_DurationFallback ==
    vid_pc = "match" =>
        /\ video_duration # NoDuration
        /\ video_duration > 0
        /\ (NoneOrNotPositive(clip_reported) /\ NoneOrNotPositive(probed))
              => video_duration = FallbackDuration

\* C22: whole-job failures keep their kind.  When a video without an audio
\* track makes the handler raise the 400 "Video has no audio track", that is
\* the response the caller receives.
C22_NoAudioTrackKeepsItsKind ==
    (vid_pc = "done" /\ raised # <<>> /\ raised[1] = "400 Video has no audio track")
        => response = "400 Video has no audio track"

\* C25: the video job reclaims every intermediate file.  When the handler
\* finishes, on success or failure, every temp file it created has been
\* handed to safe_file_cleanup, but for the output file of a successful job,
\* which is the response.
C25_EveryIntermediateFileReclaimed ==
    vid_pc = "done" =>
        \A f \in tmp_made :
            (f = "tmp_final" /\ response = "200 FileResponse")
               \/ f \in cleanup_attempted

(***************************************************************************)
(* Properties of the conversion endpoints.                                 *)
(***************************************************************************)
\* C28: bounded segments on every conversion entry point.  On each of the
\* three endpoints, with enable_chunking true and an input longer than
\* chunk_duration, no call of vc_model.generate receives more than
\* chunk_duration seconds of audio, and none receives the whole input.
C28_BoundedSegments ==
    (enable_chunking /\ input_seconds > chunk_duration) =>
        \A k \in 1..Len(fed) :
            /\ fed[k].seconds <= chunk_duration
            /\ ~fed[k].whole

(***************************************************************************)
(* Properties of the installers.                                           *)
(***************************************************************************)
\* some option tried so far was installed successfully
SomeInstalled == \E k \in 1..Len(tried) : tried[k].installed

\* C30: installer fallback chain.  The options are tried in the order
\* CUDA 12.1, CUDA 11.8, CPU fallback; the installer stops at the first one
\* that installs and is usable; and it returns True whenever some option was
\* installed, False only if every option failed to install.
C30_FallbackChain ==
    (inst_pc = "done" /\ tried # <<>>) =>
        /\ \A k \in 1..Len(tried) :
              tried[k].version \in {Options[k], "CPU version"}
        /\ inst_result = "True" => tried[Len(tried)].installed
        /\ inst_result = "True" <=> SomeInstalled

=============================================================================
